---- MODULE Spec2Model ----
(***************************************************************************)
(* Model of the TradeOS <-> 1C integration layer:                          *)
(*   - the nomenclature synchronisation task (app/tasks/sync_tasks.py),    *)
(*   - the 1C HTTP client's retrying request (app/services/onec_client.py),*)
(*   - the WebSocket connection manager                                    *)
(*     (app/services/websocket_manager.py, api/v1/endpoints/websocket.py). *)
(* The specifications share one Init: Spec and SpecOverlap                 *)
(* (synchronisation, task executions one after another or overlapping),    *)
(* SpecClient and SpecWS.                                                  *)
(***************************************************************************)
EXTENDS Integers, Sequences, FiniteSets, TLC

(***************************************************************************)
(* Bounds of the model                                                     *)
(***************************************************************************)
\* largest page the remote server returns in one response
ServerMaxPage == 2
\* number of integration sub-runs started over a behaviour (a task execution
\* that selects no integration counts as one)
MaxSubRuns == 2
\* number of failures injected over a behaviour: fetches that raise
\* OneCApiError and store calls that raise for a record
MaxFaults == 1
\* number of times the remote catalogue is modified (logical clock cap)
MaxTime == 1
\* largest max_retries a client is configured with
MaxRetries == 3
\* number of events the environment of the connection manager produces over
\* a behaviour: published messages, subscribe / unsubscribe messages of
\* clients, sends that raise and receives that raise something else than a
\* disconnect (connecting and disconnecting is not counted)
MaxEvents == 2
\* largest number of records one sub-run fetches in the model of its loop
MaxRecords == 51
\* number of health-check sweeps in a behaviour
MaxSweeps == 2
\* largest sync_version of a stored row the reconciler is tried on
MaxVersion == 2

(***************************************************************************)
(* Program constants                                                       *)
(***************************************************************************)
\* limit=1000 passed to get_nomenclature by the sync task
Limit == 1000
\* "Отправляем прогресс каждые 10 товаров"
ProgressEvery == 10
\* "Коммитим каждые 50 товаров"
CommitEvery == 50
\* Python's None for nullable columns and optional arguments
None == -1
\* @celery_app.task(bind=True, max_retries=3)
TaskMaxRetries == 3
\* self.retry(exc=e, countdown=60)
RetryCountdown == 60

Workers == {1, 2}
Integrations == {1, 2}
\* the ids of the records of the remote 1C catalogue
ExternalIds == {1, 2, 3}

\* name, price, quantity of a remote item; price 0 is sent as a falsy value
ItemValues == { [name |-> "A", price |-> 10, quantity |-> 1],
                [name |-> "A", price |-> 0,  quantity |-> 1] }

VARIABLES
  now,           \* logical clock behind datetime.now()
  remote,        \* products_db of the 1C server: ext id -> item
  integrations,  \* table integrations: id -> row
  products,      \* table products: sequence of rows, id = position
  sync_logs,     \* table sync_logs: row id -> row
  task,          \* per worker: the local state of one sync_nomenclature call
  runs,          \* number of task executions started so far
  subruns,       \* number of sub-runs the started executions selected
  faults         \* number of failures injected so far

syncVars == <<now, remote, integrations, products, sync_logs, task, runs,
             subruns, faults>>

VARIABLES
  req            \* one call of _request: position, loop variable, history

clientVars == <<req>>

VARIABLES
  active_connections,  \* channel -> set of registered sockets
  connection_info,     \* socket -> its entry (NoInfo: no entry)
  stats,               \* the counters of the manager
  message_queue,       \* (message, channel) pairs waiting for the queue task
  dispatch,            \* the queue task: position and locals of _broadcast_internal
  endpoint,            \* socket -> position of its websocket_endpoint coroutine
  received,            \* socket -> the broadcast messages sent to it, in order
  published,           \* number of messages published so far
  events               \* number of environment events so far

wsVars == <<active_connections, connection_info, stats, message_queue,
           dispatch, endpoint, received, published, events>>

VARIABLES
  rec,           \* one call of the reconciler: its inputs and its decision
  batch,         \* the loop over the fetched records of one sub-run
  sweep          \* one execution of check_integrations_health

unitVars == <<rec, batch, sweep>>

Min(a, b) == IF a < b THEN a ELSE b

RECURSIVE UpdatedAfter(_, _)
\* the items of s with updated_at > updated_since, all of them when it is None
UpdatedAfter(s, updated_since) ==
  IF s = <<>> THEN <<>>
  ELSE IF updated_since = None \/ Head(s).updated_at > updated_since
       THEN <<Head(s)>> \o UpdatedAfter(Tail(s), updated_since)
       ELSE UpdatedAfter(Tail(s), updated_since)

(***************************************************************************)
(* The remote 1C server (mock_1c/mock_server.py)                           *)
(***************************************************************************)
\* products_db in catalogue order
RemoteItems ==
  [e \in ExternalIds |-> [id |-> e, name |-> remote[e].name,
                          price |-> remote[e].price,
                          quantity |-> remote[e].quantity,
                          updated_at |-> remote[e].updated_at]]

\* GET /hs/api/nomenclature: filter by updated_since, then paginate.
\* A server answers with at most ServerMaxPage items per response.
ServerNomenclature(updated_since, limit, offset) ==
  LET filtered == UpdatedAfter(RemoteItems, updated_since)
      start    == offset
      end      == start + Min(limit, ServerMaxPage)
  IN  [items    |-> SubSeq(filtered, start + 1, Min(end, Len(filtered))),
       total    |-> Len(filtered),
       has_more |-> end < Len(filtered)]

(***************************************************************************)
(* OneCClient.get_nomenclature: response item -> OneCProduct               *)
(***************************************************************************)
\* float(x) if x else None
FloatOrNone(x) == IF x = 0 THEN None ELSE x

OneCProduct(item) ==
  [id |-> item.id, name |-> item.name,
   price |-> FloatOrNone(item.price),
   quantity |-> FloatOrNone(item.quantity),
   updated_at |-> item.updated_at]

\* the list returned to the caller: the items of the one response only
get_nomenclature(updated_since, limit, offset) ==
  LET response == ServerNomenclature(updated_since, limit, offset)
  IN  [i \in 1 .. Len(response.items) |-> OneCProduct(response.items[i])]

(***************************************************************************)
(* The reconciler (sync_tasks.py)                                          *)
(***************************************************************************)
NoProduct == [id |-> 0]

\* x or 0
OrZero(x) == IF x = None \/ x = 0 THEN 0 ELSE x

\* variant: an update keeps the stored version
NextSyncVersion_kept(existing) ==
  IF existing # NoProduct THEN existing.sync_version ELSE 1

\* "sync_version": (existing_product.sync_version + 1) if existing_product else 1
NextSyncVersion(existing) ==
  IF existing # NoProduct THEN existing.sync_version + 1 ELSE 1

\* product_data built for one fetched record
ProductData(p, existing, integration_id) ==
  [name |-> p.name, price |-> OrZero(p.price), quantity |-> OrZero(p.quantity),
   external_id |-> p.id, integration_id |-> integration_id,
   sync_version |-> NextSyncVersion(existing)]

CriticalFieldChanged(existing, new_data) ==
  \/ existing.name # new_data.name
  \/ existing.price # new_data.price
  \/ existing.quantity # new_data.quantity

\* variant: only the critical fields decide
_should_update_product_fields(existing, new_data) ==
  CriticalFieldChanged(existing, new_data)

\* _should_update_product (lines 274-287)
_should_update_product(existing, new_data) ==
  IF CriticalFieldChanged(existing, new_data) THEN TRUE
  ELSE IF new_data.sync_version > existing.sync_version THEN TRUE
  ELSE FALSE

(***************************************************************************)
(* The local store (tables products, integrations, sync_logs)              *)
(***************************************************************************)
\* get_product_by_external_id(db, external_id, integration_id)
get_product_by_external_id(external_id, integration_id) ==
  LET found == { k \in 1 .. Len(products) :
                   /\ products[k].external_id = external_id
                   /\ products[k].integration_id = integration_id }
  IN  IF found = {} THEN NoProduct
      ELSE products[CHOOSE k \in found : \A j \in found : k <= j]

\* variant: the column carries no unique constraint
UniqueViolation_off(external_id) == FALSE

\* external_id = Column(String(100), unique=True, ...): the INSERT of a row
\* whose external_id is already in the table raises IntegrityError
UniqueViolation(external_id) ==
  \E k \in 1 .. Len(products) : products[k].external_id = external_id

\* create_or_update_product(db, product_data): INSERT
InsertProduct(data) ==
  Append(products,
         [id |-> Len(products) + 1, external_id |-> data.external_id,
          integration_id |-> data.integration_id, name |-> data.name,
          price |-> data.price, quantity |-> data.quantity,
          sync_version |-> data.sync_version, updates |-> 0])

\* create_or_update_product(db, product_data, product_id): UPDATE of the row
\* (updates counts the updates applied to the row; it is not a column)
UpdateProduct(data, product_id) ==
  [products EXCEPT ![product_id] =
     [@ EXCEPT !.name = data.name, !.price = data.price,
               !.quantity = data.quantity,
               !.sync_version = data.sync_version,
               !.updates = @ + 1]]

\* the primary key of a SyncLog row (a fresh uuid4): here the pair of the
\* task execution and the integration the row is opened for
SyncLogId(task_id, integration_id) == <<task_id, integration_id>>

\* create_sync_log(db, integration_id=..., status="running"); opened,
\* finalized, fetched, thrown, stored, remote_total and has_more are
\* bookkeeping of the model, not columns
create_sync_log(task_id, integration_id) ==
  LET id == SyncLogId(task_id, integration_id)
      row == [integration_id |-> integration_id, status |-> "running",
              processed_items |-> 0, created_items |-> 0, updated_items |-> 0,
              failed_items |-> 0, opened |-> 1, finalized |-> 0,
              fetched |-> 0, thrown |-> 0, stored |-> {},
              remote_total |-> 0, has_more |-> FALSE]
  IN  IF id \in DOMAIN sync_logs
      THEN [sync_logs EXCEPT ![id].opened = @ + 1]
      ELSE (id :> row) @@ sync_logs

RECURSIVE SortedSeq(_)
\* the elements of a set of numbers in ascending order
SortedSeq(S) ==
  IF S = {} THEN <<>>
  ELSE LET m == CHOOSE x \in S : \A y \in S : x <= y
       IN  <<m>> \o SortedSeq(S \ {m})

\* _get_integrations_for_sync(db, integration_id, "onec")
_get_integrations_for_sync(integration_id, integration_type) ==
  IF integration_id # None
  THEN IF integration_id \in Integrations THEN <<integration_id>> ELSE <<>>
  ELSE SortedSeq({ i \in Integrations :
                     /\ integrations[i].integration_type = integration_type
                     /\ integrations[i].is_enabled
                     /\ integrations[i].status = "active" })

(***************************************************************************)
(* sync_nomenclature: one task execution per worker                        *)
(***************************************************************************)
IdleTask ==
  [pc |-> "idle", task_id |-> 0, integration_id |-> None,
   selected |-> <<>>, todo |-> <<>>, sync_log_id |-> <<>>,
   products |-> <<>>, idx |-> 0, existing |-> NoProduct,
   processed |-> 0, created |-> 0, updated |-> 0,
   errors |-> <<>>, thrown |-> 0, stored |-> {}, attempted |-> <<>>,
   remote_total |-> 0, has_more |-> FALSE,
   total_processed |-> 0, total_created |-> 0, total_updated |-> 0,
   task_errors |-> <<>>, events |-> <<>>, result |-> "none",
   error_message |-> "None", retries |-> 0, countdown |-> 0]

\* an id that names no integration
UnknownIntegrations == {0}

\* workers are interchangeable: a new task execution goes to the
\* lowest-numbered worker that is not executing one
WorkerFree(w) == \A v \in Workers : v < w => task[v].pc \notin {"idle", "done"}

\* variant: nothing to sync ends the execution without a terminal event
SkippedTask_silent(t) ==
  [t EXCEPT !.pc = "done", !.result = "skipped"]

\* lines 39-44: nothing to sync
SkippedTask(t) ==
  [t EXCEPT !.pc = "done",
            !.events = Append(@, "sync_completed"),
            !.task_errors = <<"No active integrations">>,
            !.error_message = "No active integrations",
            !.result = "skipped"]

\* lines 112-120: an exception that reaches the outer handler publishes
\* sync_error and calls self.retry, which reschedules the task while
\* request.retries < max_retries and re-raises the exception otherwise
UncaughtException(t) ==
  LET t1 == [t EXCEPT !.events = Append(@, "sync_error")]
  IN  IF t.retries < TaskMaxRetries
        THEN [t1 EXCEPT !.pc = "retry", !.result = "retry",
                        !.countdown = RetryCountdown]
        ELSE [t1 EXCEPT !.pc = "done", !.result = "failed"]

\* lines 27-49 of one execution of the task: sync_started, the selection
\* (which raises when crashes holds), "skipped" when nothing is selected
Execution(t0, selected, crashes) ==
  LET t == [t0 EXCEPT !.events = <<"sync_started">>]
  IN  IF crashes THEN UncaughtException(t)
      ELSE IF selected = <<>> THEN SkippedTask(t)
      ELSE [t EXCEPT !.selected = selected, !.todo = selected, !.pc = "loop"]

\* the sub-runs an execution counts for (one when it selects or syncs
\* nothing)
Cost(selected, crashes) ==
  IF crashes \/ selected = <<>> THEN 1 ELSE Len(selected)

\* sync_nomenclature.delay(integration_id): the first execution of a task
StartTask(w, integration_id) ==
  /\ task[w].pc \in {"idle", "done"}
  /\ WorkerFree(w)
  /\ runs' = runs + 1
  /\ \E crashes \in {FALSE} \cup {c \in {TRUE} : faults < MaxFaults} :
       LET selected == _get_integrations_for_sync(integration_id, "onec")
       IN  /\ subruns + Cost(selected, crashes) <= MaxSubRuns
           /\ subruns' = subruns + Cost(selected, crashes)
           /\ faults' = IF crashes THEN faults + 1 ELSE faults
           /\ task' = [task EXCEPT ![w] =
                 Execution([IdleTask EXCEPT !.task_id = runs + 1,
                                            !.integration_id = integration_id],
                           selected, crashes)]
  /\ UNCHANGED <<now, remote, integrations, products, sync_logs>>
  /\ UNCHANGED <<clientVars, wsVars, unitVars>>

\* the rescheduled task is executed again, with request.retries one higher
RetryTask(w) ==
  /\ task[w].pc = "retry"
  /\ \E crashes \in {FALSE} \cup {c \in {TRUE} : faults < MaxFaults} :
       LET selected == _get_integrations_for_sync(task[w].integration_id, "onec")
       IN  /\ subruns + Cost(selected, crashes) <= MaxSubRuns
           /\ subruns' = subruns + Cost(selected, crashes)
           /\ faults' = IF crashes THEN faults + 1 ELSE faults
           /\ task' = [task EXCEPT ![w] =
                 Execution([IdleTask EXCEPT !.task_id = task[w].task_id,
                                            !.integration_id = task[w].integration_id,
                                            !.retries = task[w].retries + 1],
                           selected, crashes)]
  /\ UNCHANGED <<now, remote, integrations, products, sync_logs, runs>>
  /\ UNCHANGED <<clientVars, wsVars, unitVars>>

\* lines 54-60 and 154-177: open the SyncLog row and fetch the products
SubRunFetch(w) ==
  /\ task[w].pc = "loop"
  /\ task[w].todo # <<>>
  /\ LET i == Head(task[w].todo)
         last_sync == integrations[i].last_sync_at
         response == ServerNomenclature(last_sync, Limit, 0)
         fetched == get_nomenclature(last_sync, Limit, 0)
     IN  /\ sync_logs' = create_sync_log(task[w].task_id, i)
         /\ task' = [task EXCEPT ![w] =
               [@ EXCEPT !.sync_log_id = SyncLogId(task[w].task_id, i),
                         !.products = fetched, !.idx = 1,
                         !.existing = NoProduct,
                         !.processed = 0, !.created = 0, !.updated = 0,
                         !.errors = <<>>, !.thrown = 0, !.stored = {},
                         !.attempted = Append(@, i),
                         !.remote_total = response.total,
                         !.has_more = response.has_more,
                         !.pc = IF fetched = <<>> THEN "finish" ELSE "lookup"]]
  /\ UNCHANGED <<now, remote, integrations, products, runs, subruns, faults>>
  /\ UNCHANGED <<clientVars, wsVars, unitVars>>

\* variant: the error of one integration ends the loop over the integrations
AfterFatalError_abort(t, e) ==
  [t EXCEPT !.task_errors = Append(@, e), !.todo = <<>>]

\* lines 83-91 seen from the task: the error is recorded and the for loop
\* goes on with the next integration
AfterFatalError(t, e) ==
  [t EXCEPT !.task_errors = Append(@, e), !.todo = Tail(@)]

\* lines 54-60, 174 raising OneCApiError, 266-272 re-raise, 83-91 handler
SubRunFetchFail(w) ==
  /\ task[w].pc = "loop"
  /\ task[w].todo # <<>>
  /\ faults < MaxFaults
  /\ faults' = faults + 1
  /\ LET i == Head(task[w].todo)
     IN  /\ sync_logs' = create_sync_log(task[w].task_id, i)
         /\ integrations' = [integrations EXCEPT ![i] =
               [@ EXCEPT !.failed_syncs = @ + 1,
                         !.last_error = TRUE,
                         !.is_healthy = FALSE]]
         /\ task' = [task EXCEPT ![w] = AfterFatalError(
               [@ EXCEPT !.sync_log_id = SyncLogId(task[w].task_id, i),
                         !.attempted = Append(@, i)],
               "OneCApiError")]
  /\ UNCHANGED <<now, remote, products, runs, subruns>>
  /\ UNCHANGED <<clientVars, wsVars, unitVars>>

\* lines 182-187: processed += 1 and the lookup of the existing product
LookupProduct(w) ==
  /\ task[w].pc = "lookup"
  /\ LET p == task[w].products[task[w].idx]
         i == Head(task[w].todo)
     IN  task' = [task EXCEPT ![w] =
           [@ EXCEPT !.processed = @ + 1,
                     !.existing = get_product_by_external_id(p.id, i),
                     !.pc = "apply"]]
  /\ UNCHANGED <<now, remote, integrations, products, sync_logs, runs, subruns, faults>>
  /\ UNCHANGED <<clientVars, wsVars, unitVars>>

\* variant: the loop over the page stops after the record
AfterRecord_break(t) ==
  [t EXCEPT !.existing = NoProduct, !.pc = "finish"]

\* the state of the task after the loop body for one record
AfterRecord(t) ==
  IF t.idx < Len(t.products)
  THEN [t EXCEPT !.idx = @ + 1, !.existing = NoProduct, !.pc = "lookup"]
  ELSE [t EXCEPT !.existing = NoProduct, !.pc = "finish"]

\* lines 239-241: the handler of a per-record exception
RecordError(t, p) ==
  [t EXCEPT !.errors = Append(@, p.id), !.thrown = @ + 1]

\* lines 229-237: progress event every 10 records, commit every 50
ProgressAndCommit(t) ==
  IF t.processed % ProgressEvery = 0
  THEN [t EXCEPT !.events = Append(@, "sync_progress")]
  ELSE t

\* lines 189-241: build product_data, create / update / skip, or an exception
\* raised by the store for this record
ApplyProduct(w) ==
  /\ task[w].pc = "apply"
  /\ \E raises \in {FALSE} \cup {r \in {TRUE} : faults < MaxFaults} :
       LET t == task[w]
           p == t.products[t.idx]
           existing == t.existing
           data == ProductData(p, existing, Head(t.todo))
       IN  IF raises
           THEN /\ task' = [task EXCEPT ![w] = AfterRecord(RecordError(t, p))]
                /\ faults' = faults + 1
                /\ UNCHANGED products
           ELSE IF existing # NoProduct
           THEN IF _should_update_product(existing, data)
                THEN /\ products' = UpdateProduct(data, existing.id)
                     /\ UNCHANGED faults
                     /\ task' = [task EXCEPT ![w] = AfterRecord(ProgressAndCommit(
                          [t EXCEPT !.updated = @ + 1,
                                    !.stored = @ \cup {p.id},
                                    !.events = Append(@, "product_updated")]))]
                ELSE /\ task' = [task EXCEPT ![w] = AfterRecord(ProgressAndCommit(t))]
                     /\ UNCHANGED <<products, faults>>
           ELSE IF UniqueViolation(data.external_id)
                THEN /\ task' = [task EXCEPT ![w] = AfterRecord(RecordError(t, p))]
                     /\ UNCHANGED <<products, faults>>
                ELSE /\ products' = InsertProduct(data)
                     /\ UNCHANGED faults
                     /\ task' = [task EXCEPT ![w] = AfterRecord(ProgressAndCommit(
                          [t EXCEPT !.created = @ + 1,
                                    !.stored = @ \cup {p.id},
                                    !.events = Append(@, "product_updated")]))]
  /\ UNCHANGED <<now, remote, integrations, sync_logs, runs, subruns>>
  /\ UNCHANGED <<clientVars, wsVars, unitVars>>

\* update_sync_log(db, sync_log_id, status="completed", ...)
update_sync_log(log, t) ==
  [log EXCEPT !.status = "completed",
              !.processed_items = t.processed,
              !.created_items = t.created,
              !.updated_items = t.updated,
              !.failed_items = Len(t.errors),
              !.finalized = @ + 1,
              !.fetched = Len(t.products),
              !.thrown = t.thrown,
              !.stored = t.stored,
              !.remote_total = t.remote_total,
              !.has_more = t.has_more]

\* lines 243-264 and 67-81: final commit, SyncLog completed, totals and the
\* counters of the integration
FinishSubRun(w) ==
  /\ task[w].pc = "finish"
  /\ LET t == task[w]
         i == Head(t.todo)
     IN  /\ sync_logs' = [sync_logs EXCEPT ![t.sync_log_id] = update_sync_log(@, t)]
         /\ integrations' = [integrations EXCEPT ![i] =
               [@ EXCEPT !.last_sync_at = now,
                         !.total_syncs = @ + 1,
                         !.successful_syncs = @ + 1]]
         /\ task' = [task EXCEPT ![w] =
               [t EXCEPT !.total_processed = @ + t.processed,
                         !.total_created = @ + t.created,
                         !.total_updated = @ + t.updated,
                         !.task_errors = @ \o [k \in 1 .. Len(t.errors) |-> "Product"],
                         !.todo = Tail(@),
                         !.products = <<>>, !.idx = 0,
                         !.processed = 0, !.created = 0, !.updated = 0,
                         !.errors = <<>>, !.thrown = 0, !.stored = {},
                         !.remote_total = 0, !.has_more = FALSE,
                         !.pc = "loop"]]
  /\ UNCHANGED <<now, remote, products, runs, subruns, faults>>
  /\ UNCHANGED <<clientVars, wsVars, unitVars>>

\* line 94: "; ".join(errors) if errors else None, the error field of the
\* final sync_completed event
ErrorMessage(errors) == IF errors # <<>> THEN "joined" ELSE "None"

\* lines 93-110: the final sync_completed event and the result
FinishTask(w) ==
  /\ task[w].pc = "loop"
  /\ task[w].todo = <<>>
  /\ task' = [task EXCEPT ![w] =
        [@ EXCEPT !.events = Append(@, "sync_completed"),
                  !.error_message = ErrorMessage(task[w].task_errors),
                  !.result = "completed",
                  !.pc = "done"]]
  /\ UNCHANGED <<now, remote, integrations, products, sync_logs, runs, subruns, faults>>
  /\ UNCHANGED <<clientVars, wsVars, unitVars>>

\* the 1C side modifies an item (v equal to the current values: a change of
\* fields the sync does not compare); updated_at is stamped by the server.
\* A modification commutes with the steps that handle a fetched record
\* (they read neither the catalogue nor the clock), so it is taken before
\* or after them.
RemoteUpdate(e, v) ==
  /\ now < MaxTime
  /\ \A w \in Workers : task[w].pc \notin {"lookup", "apply"}
  /\ now' = now + 1
  /\ remote' = [remote EXCEPT ![e] =
        [name |-> v.name, price |-> v.price, quantity |-> v.quantity,
         updated_at |-> now + 1]]
  /\ UNCHANGED <<integrations, products, sync_logs, task, runs, subruns, faults>>
  /\ UNCHANGED <<clientVars, wsVars, unitVars>>

InitSync ==
  /\ now = 0
  /\ remote = [e \in ExternalIds |->
        [name |-> "A", price |-> 10, quantity |-> 1, updated_at |-> 0]]
  /\ integrations = [i \in Integrations |->
        [integration_type |-> "onec", is_enabled |-> TRUE, status |-> "active",
         is_healthy |-> TRUE, last_sync_at |-> None, total_syncs |-> 0,
         successful_syncs |-> 0, failed_syncs |-> 0, last_error |-> FALSE,
         last_health_check |-> None]]
  /\ products = <<>>
  /\ sync_logs = <<>>
  /\ task = [w \in Workers |-> IdleTask]
  /\ runs = 0
  /\ subruns = 0
  /\ faults = 0

\* the store after sync_nomenclature(1) has completed from InitSync (the
\* two records of the first response created, last_sync_at = 0) and the 1C
\* side has then re-stamped item 1; sub-runs and failures are counted from
\* this state on
InitResync ==
  /\ now = 1
  /\ remote = [e \in ExternalIds |->
        [name |-> "A", price |-> 10, quantity |-> 1,
         updated_at |-> IF e = 1 THEN 1 ELSE 0]]
  /\ integrations = [i \in Integrations |->
        [integration_type |-> "onec", is_enabled |-> TRUE, status |-> "active",
         is_healthy |-> TRUE,
         last_sync_at |-> IF i = 1 THEN 0 ELSE None,
         total_syncs |-> IF i = 1 THEN 1 ELSE 0,
         successful_syncs |-> IF i = 1 THEN 1 ELSE 0,
         failed_syncs |-> 0, last_error |-> FALSE,
         last_health_check |-> None]]
  /\ products = [k \in 1 .. 2 |->
        [id |-> k, external_id |-> k, integration_id |-> 1, name |-> "A",
         price |-> 10, quantity |-> 1, sync_version |-> 1, updates |-> 0]]
  /\ sync_logs = (SyncLogId(1, 1) :>
        [integration_id |-> 1, status |-> "completed",
         processed_items |-> 2, created_items |-> 2, updated_items |-> 0,
         failed_items |-> 0, opened |-> 1, finalized |-> 1,
         fetched |-> 2, thrown |-> 0, stored |-> {1, 2},
         remote_total |-> 3, has_more |-> TRUE])
  /\ task = [w \in Workers |-> IdleTask]
  /\ runs = 1
  /\ subruns = 0
  /\ faults = 0

(***************************************************************************)
(* The 1C client: OneCClient._request (app/services/onec_client.py)        *)
(***************************************************************************)
\* the HTTP statuses the server answers with (204: a response without content)
Statuses == {200, 204, 401, 404, 503}
\* httpx.TimeoutException, httpx.ConnectError, httpx.NetworkError
TransportErrors == {"TimeoutException", "ConnectError", "NetworkError"}

\* what one self._client.request(...) does: it answers with a status or
\* raises a transport exception
Outcomes ==
  { [status |-> s, exc |-> "none"] : s \in Statuses }
    \cup { [status |-> 0, exc |-> x] : x \in TransportErrors }

\* the exception the status check raises for a response with status >= 400
StatusError(status) ==
  IF status = 401 THEN "OneCAuthError"
  ELSE IF status \in {502, 503, 504} THEN "OneCConnectionError"
  ELSE "OneCResponseError"

\* the exception raised inside the try block of one attempt, "none" when
\* the attempt returns
ExceptionRaised(o) ==
  IF o.exc # "none" THEN o.exc
  ELSE IF o.status >= 400 THEN StatusError(o.status)
  ELSE "none"

\* variant: the delay grows linearly with the attempt
wait_time_linear(attempt) == 2 * attempt

\* line 180: wait_time = 2 ** attempt
wait_time(attempt) == 2 ^ attempt

IdleRequest ==
  [pc |-> "idle", max_retries |-> 0, attempt |-> 0, sent |-> 0,
   seen |-> <<>>, waits |-> <<>>, result |-> "none"]

\* _request is called on a client configured with max_retries; with
\* range(0) the loop body never runs and the call returns None
RequestStart(max_retries) ==
  /\ req.pc \in {"idle", "returned", "raised"}
  /\ req' = IF max_retries = 0
              THEN [IdleRequest EXCEPT !.pc = "returned", !.result = "None"]
              ELSE [IdleRequest EXCEPT !.pc = "attempt",
                                       !.max_retries = max_retries]
  /\ UNCHANGED <<syncVars, wsVars, unitVars>>

\* one pass of the for loop: the request is sent and answered with o
RequestAttempt(o) ==
  /\ req.pc = "attempt"
  /\ LET exc == ExceptionRaised(o)
         r   == [req EXCEPT !.sent = @ + 1, !.seen = Append(@, o)]
     IN  req' =
           IF exc = "none"
             THEN [r EXCEPT !.pc = "returned",
                            !.result = IF o.status = 204 THEN "empty" ELSE "json"]
           ELSE IF exc \in TransportErrors
             THEN IF req.attempt = req.max_retries - 1
                    THEN [r EXCEPT !.pc = "raised",
                                   !.result = "OneCConnectionError"]
                    ELSE [r EXCEPT !.waits = Append(@, wait_time(req.attempt)),
                                   !.attempt = @ + 1]
           \* except Exception: whatever else was raised in the try block,
           \* the errors of the status check included
           ELSE [r EXCEPT !.pc = "raised", !.result = "OneCApiError"]
  /\ UNCHANGED <<syncVars, wsVars, unitVars>>

\* OneCApiError and its subclasses (lines 12-29)
OneCApiErrors ==
  {"OneCApiError", "OneCConnectionError", "OneCAuthError", "OneCResponseError"}

\* how get_nomenclature (lines 211-241; get_stock and create_order alike)
\* ends for a call r of _request that has ended: an OneCApiError is
\* re-raised, a parsed body or {} gives the list of products, and on None
\* response.get raises AttributeError, which no except clause catches
get_nomenclature_exit(r) ==
  IF r.pc = "raised" THEN r.result
  ELSE IF r.result = "None" THEN "AttributeError"
  ELSE "products"

InitClient == req = IdleRequest


(***************************************************************************)
(* The WebSocket connection manager (app/services/websocket_manager.py)    *)
(* and the endpoint coroutines (app/api/v1/endpoints/websocket.py)         *)
(***************************************************************************)
\* the keys of ConnectionManager.active_connections
Channels == {"sync_updates", "product_updates", "order_updates",
             "system_notifications", "all"}
Sockets == {1, 2, 3}
\* channel lists sent by clients ("other" is not a channel of the manager)
ChannelLists == { {"sync_updates"}, {"all", "other"} }
\* channels the application publishes to
PublishChannels == {"sync_updates", "other"}

NoInfo == [present |-> FALSE, channels |-> {}]

\* the manager's registries as one value
Manager == [ac |-> active_connections, ci |-> connection_info, st |-> stats]

SetManager(M) ==
  /\ active_connections' = M.ac
  /\ connection_info' = M.ci
  /\ stats' = M.st

\* variant: disconnect takes the socket out of "all" only
disconnect_all_only(M, ws) ==
  IF M.ci[ws].present
    THEN [ac |-> [M.ac EXCEPT !["all"] = @ \ {ws}],
          ci |-> [M.ci EXCEPT ![ws] = NoInfo],
          st |-> [M.st EXCEPT !.current_connections = @ - 1]]
    ELSE M

\* ConnectionManager.disconnect
disconnect(M, ws) ==
  IF M.ci[ws].present
    THEN [ac |-> [c \in Channels |->
                    IF c \in M.ci[ws].channels \cup {"all"}
                      THEN M.ac[c] \ {ws} ELSE M.ac[c]],
          ci |-> [M.ci EXCEPT ![ws] = NoInfo],
          st |-> [M.st EXCEPT !.current_connections = @ - 1]]
    ELSE M

\* "for connection in disconnected: self.disconnect(connection)"
RECURSIVE DisconnectEach(_, _)
DisconnectEach(M, D) ==
  IF D = {} THEN M
  ELSE LET ws == CHOOSE x \in D : TRUE
       IN  DisconnectEach(disconnect(M, ws), D \ {ws})

IdleDispatch ==
  [pc |-> "idle", message |-> 0, channel |-> "all", registry |-> {},
   si_used |-> 0, visited |-> {}, current |-> 0, disconnected |-> {},
   mutated |-> FALSE]

\* a registry change made while the queue task is suspended in a send is
\* remembered when it touches the set being iterated
\* the step takes n events of the environment
Spend(n) ==
  /\ events + n <= MaxEvents
  /\ events' = events + n

\* the step injects a failure when failed holds
Fault(failed) == Spend(IF failed THEN 1 ELSE 0)

Touch(ac) ==
  IF dispatch.pc = "sending"
       /\ ac[dispatch.channel] # active_connections[dispatch.channel]
    THEN [dispatch EXCEPT !.mutated = TRUE]
    ELSE dispatch

\* the next step of "for connection in self.active_connections[channel]"
\* with locals d and registries M: the set iterator raises RuntimeError
\* when the set's size differs from the size at its creation (caught by
\* _process_message_queue); otherwise it hands out a socket not yet seen
\* and the send to it starts, or it is exhausted and the sockets whose
\* send failed are disconnected.  After a change that kept the size the
\* iterator may also be exhausted early.
Iterate(d, M) ==
  LET cur == M.ac[d.channel]
  IN  IF Cardinality(cur) # d.si_used
        THEN /\ dispatch' = IdleDispatch
             /\ SetManager([M EXCEPT !.st.errors = @ + 1])
        ELSE \/ \E ws \in cur \ d.visited :
                  /\ dispatch' = [d EXCEPT !.pc = "sending", !.current = ws,
                                           !.visited = @ \cup {ws}]
                  /\ SetManager(M)
             \/ /\ (cur \ d.visited = {}) \/ d.mutated
                /\ dispatch' = IdleDispatch
                /\ SetManager(DisconnectEach(M, d.disconnected))

\* variant: broadcast sends the message to the sockets of the channel itself
Broadcast_direct(channel) ==
  /\ Spend(1)
  /\ published' = published + 1
  /\ received' = [ws \in Sockets |->
        IF channel \in Channels /\ ws \in active_connections[channel]
          THEN Append(received[ws], published + 1) ELSE received[ws]]
  /\ stats' = [stats EXCEPT !.messages_sent = @ + 1]
  /\ UNCHANGED <<active_connections, connection_info, message_queue,
                 dispatch, endpoint>>
  /\ UNCHANGED <<syncVars, clientVars, unitVars>>

\* ConnectionManager.broadcast
Broadcast(channel) ==
  /\ Spend(1)
  /\ published' = published + 1
  /\ message_queue' =
       Append(message_queue, [message |-> published + 1, channel |-> channel])
  /\ UNCHANGED <<active_connections, connection_info, stats, dispatch,
                 endpoint, received>>
  /\ UNCHANGED <<syncVars, clientVars, unitVars>>

\* variant: the pair published last is taken first
queue_get_lifo(q) ==
  [item |-> q[Len(q)], rest |-> SubSeq(q, 1, Len(q) - 1)]

\* asyncio.Queue.get on a non-empty queue: the oldest pair and the rest
queue_get(q) == [item |-> Head(q), rest |-> Tail(q)]

\* _process_message_queue takes a pair and _broadcast_internal runs up to
\* its first send
DispatchTake ==
  /\ dispatch.pc = "idle"
  /\ message_queue # <<>>
  /\ message_queue' = queue_get(message_queue).rest
  /\ LET item == queue_get(message_queue).item
     IN  IF item.channel \notin Channels
           THEN /\ dispatch' = IdleDispatch
                /\ UNCHANGED <<active_connections, connection_info, stats>>
           ELSE Iterate([IdleDispatch EXCEPT
                           !.message = item.message,
                           !.channel = item.channel,
                           !.registry = active_connections[item.channel],
                           !.si_used =
                              Cardinality(active_connections[item.channel])],
                        Manager)
  /\ UNCHANGED <<endpoint, received, published, events>>
  /\ UNCHANGED <<syncVars, clientVars, unitVars>>

\* the send in flight completes (ok) or raises, and the loop goes on
SendDone(ok) ==
  /\ dispatch.pc = "sending"
  /\ Fault(~ok)
  /\ LET ws == dispatch.current
         M  == IF ok THEN [Manager EXCEPT !.st.messages_sent = @ + 1]
                     ELSE [Manager EXCEPT !.st.errors = @ + 1]
         d  == IF ok THEN dispatch
                     ELSE [dispatch EXCEPT !.disconnected = @ \cup {ws}]
     IN  /\ received' = IF ok THEN [received EXCEPT ![ws] =
                                      Append(@, dispatch.message)]
                              ELSE received
         /\ Iterate(d, M)
  /\ UNCHANGED <<message_queue, endpoint, published>>
  /\ UNCHANGED <<syncVars, clientVars, unitVars>>

\* the socket whose peer stopped reading: "await connection.send_json" to it
\* (line 213, no timeout) never completes
StalledSocket == 1

\* the send in flight, to a socket other than the stalled one, ends
SendDoneLive(ok) ==
  /\ dispatch.current # StalledSocket
  /\ SendDone(ok)

\* websocket_endpoint up to its first receive: manager.connect registers
\* the socket and sends the welcome message; an exception of the welcome
\* send ends the endpoint coroutine
Connect(ws, channels, outcome) ==
  /\ endpoint[ws] = "new"
  /\ Fault(outcome # "ok")
  /\ \A v \in Sockets : v < ws => endpoint[v] # "new"
  /\ LET ac == [c \in Channels |->
                 IF c \in channels \cup {"all"}
                   THEN active_connections[c] \cup {ws}
                   ELSE active_connections[c]]
     IN  /\ active_connections' = ac
         /\ connection_info' = [connection_info EXCEPT ![ws] =
                [present |-> TRUE, channels |-> channels]]
         /\ stats' = [stats EXCEPT !.total_connections = @ + 1,
                                   !.current_connections = @ + 1]
         /\ dispatch' = Touch(ac)
         /\ endpoint' = [endpoint EXCEPT ![ws] =
                IF outcome = "ok" THEN "open" ELSE "closed"]
  /\ UNCHANGED <<message_queue, received, published>>
  /\ UNCHANGED <<syncVars, clientVars, unitVars>>

\* receive_text raises WebSocketDisconnect: manager.disconnect(websocket)
ClientDisconnect(ws) ==
  /\ endpoint[ws] = "open"
  /\ endpoint' = [endpoint EXCEPT ![ws] = "closed"]
  /\ LET M == disconnect(Manager, ws)
     IN  /\ SetManager(M)
         /\ dispatch' = Touch(M.ac)
  /\ UNCHANGED <<message_queue, received, published, events>>
  /\ UNCHANGED <<syncVars, clientVars, unitVars>>

\* send_personal_message: counts the message, or the error when the send
\* raises
send_personal_message(st, ok) ==
  IF ok THEN [st EXCEPT !.messages_sent = @ + 1]
        ELSE [st EXCEPT !.errors = @ + 1]

\* receive_text raises another exception: an error message is sent to the
\* socket and the loop is left without manager.disconnect
EndpointError(ws, ok) ==
  /\ endpoint[ws] = "open"
  /\ Spend(IF ok THEN 1 ELSE 2)
  /\ endpoint' = [endpoint EXCEPT ![ws] = "closed"]
  /\ stats' = send_personal_message(stats, ok)
  /\ UNCHANGED <<active_connections, connection_info, message_queue,
                 dispatch, received, published>>
  /\ UNCHANGED <<syncVars, clientVars, unitVars>>

\* a "subscribe" message of the client: _handle_subscribe
Subscribe(ws, channels, ok) ==
  /\ endpoint[ws] = "open"
  /\ LET st == [stats EXCEPT !.messages_received = @ + 1]
     IN  IF ~connection_info[ws].present
           THEN /\ ok
                /\ Spend(1)
                /\ stats' = st
                /\ UNCHANGED <<active_connections, connection_info, dispatch>>
           ELSE LET ac == [c \in Channels |->
                             IF c \in channels
                               THEN active_connections[c] \cup {ws}
                               ELSE active_connections[c]]
                IN  /\ active_connections' = ac
                    /\ connection_info' = [connection_info EXCEPT
                         ![ws].channels = @ \cup (channels \cap Channels)]
                    /\ stats' = send_personal_message(st, ok)
                    /\ Spend(IF ok THEN 1 ELSE 2)
                    /\ dispatch' = Touch(ac)
  /\ UNCHANGED <<message_queue, endpoint, received, published>>
  /\ UNCHANGED <<syncVars, clientVars, unitVars>>

\* an "unsubscribe" message of the client: _handle_unsubscribe
Unsubscribe(ws, channels, ok) ==
  /\ endpoint[ws] = "open"
  /\ LET st == [stats EXCEPT !.messages_received = @ + 1]
     IN  IF ~connection_info[ws].present
           THEN /\ ok
                /\ Spend(1)
                /\ stats' = st
                /\ UNCHANGED <<active_connections, connection_info, dispatch>>
           ELSE LET ac == [c \in Channels |->
                             IF c \in channels
                               THEN active_connections[c] \ {ws}
                               ELSE active_connections[c]]
                IN  /\ active_connections' = ac
                    /\ connection_info' = [connection_info EXCEPT
                         ![ws].channels = @ \ (channels \cap Channels)]
                    /\ stats' = send_personal_message(st, ok)
                    /\ Spend(IF ok THEN 1 ELSE 2)
                    /\ dispatch' = Touch(ac)
  /\ UNCHANGED <<message_queue, endpoint, received, published>>
  /\ UNCHANGED <<syncVars, clientVars, unitVars>>

InitWS ==
  /\ active_connections = [c \in Channels |-> {}]
  /\ connection_info = [ws \in Sockets |-> NoInfo]
  /\ stats = [total_connections |-> 0, current_connections |-> 0,
              messages_sent |-> 0, messages_received |-> 0, errors |-> 0]
  /\ message_queue = <<>>
  /\ dispatch = IdleDispatch
  /\ endpoint = [ws \in Sockets |-> "new"]
  /\ received = [ws \in Sockets |-> <<>>]
  /\ published = 0
  /\ events = 0

\* no other task execution is in progress
(***************************************************************************)
(* The reconciler called on one record (sync_tasks.py lines 184-227,       *)
(* 274-287)                                                                *)
(***************************************************************************)
\* the stored rows and the incoming product_data the reconciler is tried on
Names == {"A", "B"}
Prices == {0, 10}
Quantities == {0, 1}

StoredRows ==
  { [id |-> 1, external_id |-> 1, integration_id |-> 1, name |-> n,
     price |-> p, quantity |-> q, sync_version |-> v, updates |-> v - 1] :
      n \in Names, p \in Prices, q \in Quantities, v \in 1 .. MaxVersion }

IncomingData ==
  { [name |-> n, price |-> p, quantity |-> q, external_id |-> 1,
     integration_id |-> 1, sync_version |-> v] :
      n \in Names, p \in Prices, q \in Quantities, v \in 0 .. MaxVersion + 1 }

IdleReconcile ==
  [pc |-> "idle", existing |-> NoProduct, new_data |-> NoProduct,
   decision |-> "none", row |-> NoProduct]

\* lines 212-227 for one record: an existing row is rewritten with
\* product_data when _should_update_product says so and is left alone
\* otherwise; without an existing row a new one is created, its
\* sync_version being the one of line 208
Reconcile ==
  /\ rec.pc = "input"
  /\ rec' =
       IF rec.existing # NoProduct
         THEN IF _should_update_product(rec.existing, rec.new_data)
                THEN [rec EXCEPT !.pc = "decided", !.decision = "update",
                        !.row = [rec.existing EXCEPT
                                   !.name = rec.new_data.name,
                                   !.price = rec.new_data.price,
                                   !.quantity = rec.new_data.quantity,
                                   !.sync_version = rec.new_data.sync_version,
                                   !.updates = @ + 1]]
                ELSE [rec EXCEPT !.pc = "decided", !.decision = "skip",
                                 !.row = rec.existing]
         ELSE [rec EXCEPT !.pc = "decided", !.decision = "create",
                 !.row = [id |-> 1, external_id |-> rec.new_data.external_id,
                          integration_id |-> rec.new_data.integration_id,
                          name |-> rec.new_data.name,
                          price |-> rec.new_data.price,
                          quantity |-> rec.new_data.quantity,
                          sync_version |-> NextSyncVersion(NoProduct),
                          updates |-> 0]]
  /\ UNCHANGED <<syncVars, clientVars, wsVars, batch, sweep>>

(***************************************************************************)
(* The loop over the fetched records (sync_tasks.py lines 180-244):        *)
(* counters, progress events and commits                                   *)
(***************************************************************************)
\* committed_at is the value of processed at the last db.commit(), progress
\* the values of current of the sync_progress events published so far
IdleBatch ==
  [pc |-> "idle", total |-> 0, processed |-> 0, failed |-> FALSE,
   committed_at |-> 0, progress |-> <<>>]

\* lines 229-233: sync_progress(current = processed, total = len(products))
\* after every 10th record
ProgressStep(b) ==
  IF b.processed % ProgressEvery = 0
    THEN [b EXCEPT !.progress = Append(@, b.processed)]
    ELSE b

\* lines 235-237: db.commit() after every 50th record
CommitStep(b) ==
  IF b.processed % CommitEvery = 0
    THEN [b EXCEPT !.committed_at = b.processed]
    ELSE b

\* one pass of the for loop: processed += 1, then the lookup and the write,
\* which may raise; an exception goes to the handler of lines 239-241 and
\* so passes over the progress event and the commit of this record
ProcessRecord(raises) ==
  /\ batch.pc = "loop"
  /\ batch.processed < batch.total
  /\ LET b == [batch EXCEPT !.processed = @ + 1]
     IN  batch' = IF raises THEN [b EXCEPT !.failed = TRUE]
                            ELSE CommitStep(ProgressStep(b))
  /\ UNCHANGED <<syncVars, clientVars, wsVars, rec, sweep>>

\* line 244: the final commit after the loop
FinishBatch ==
  /\ batch.pc = "loop"
  /\ batch.processed = batch.total
  /\ batch' = [batch EXCEPT !.pc = "done", !.committed_at = batch.processed]
  /\ UNCHANGED <<syncVars, clientVars, wsVars, rec, sweep>>

(***************************************************************************)
(* check_integrations_health (sync_tasks.py lines 295-333)                 *)
(***************************************************************************)
\* id numbers the sweeps (it stands for datetime.now() of the sweep),
\* probes lists the integrations probed so far with what the probe did
IdleSweep == [pc |-> "idle", id |-> 0, todo |-> <<>>, probes |-> <<>>]

\* what client.health_check() does in one pass: it returns True or False,
\* or the pass raises
ProbeOutcomes == {"healthy", "unhealthy", "exception"}

\* get_integrations(db, is_enabled=True)
EnabledIntegrations ==
  SortedSeq({ i \in Integrations : integrations[i].is_enabled })

\* lines 299-302: a sweep starts with the enabled integrations
StartSweep ==
  /\ sweep.pc \in {"idle", "done"}
  /\ sweep.id < MaxSweeps
  /\ sweep' = [pc |-> "probing", id |-> sweep.id + 1,
               todo |-> EnabledIntegrations, probes |-> <<>>]
  /\ UNCHANGED <<syncVars, clientVars, wsVars, rec, batch>>

\* lines 312-328: the row of the integration after one pass of the loop
AfterProbe(row, outcome, id) ==
  IF outcome = "healthy"
    THEN [row EXCEPT !.is_healthy = TRUE, !.last_health_check = id]
  ELSE IF outcome = "unhealthy"
    THEN [row EXCEPT !.is_healthy = FALSE, !.last_health_check = id,
                     !.status = "error"]
  ELSE [row EXCEPT !.is_healthy = FALSE, !.status = "error"]

\* lines 304-328: one pass of the loop over the integrations
Probe(outcome) ==
  /\ sweep.pc = "probing"
  /\ sweep.todo # <<>>
  /\ LET i == Head(sweep.todo)
     IN  /\ integrations' = [integrations EXCEPT ![i] =
                AfterProbe(@, outcome, sweep.id)]
         /\ sweep' = [sweep EXCEPT !.todo = Tail(@),
                !.probes = Append(@, [id |-> i, outcome |-> outcome])]
  /\ UNCHANGED <<now, remote, products, sync_logs, task, runs, subruns, faults>>
  /\ UNCHANGED <<clientVars, wsVars, rec, batch>>

\* line 330: the loop has ended
FinishSweep ==
  /\ sweep.pc = "probing"
  /\ sweep.todo = <<>>
  /\ sweep' = [sweep EXCEPT !.pc = "done"]
  /\ UNCHANGED <<syncVars, clientVars, wsVars, rec, batch>>

\* no call of the reconciler, no loop and no sweep is under way
InitUnit == rec = IdleReconcile /\ batch = IdleBatch /\ sweep = IdleSweep

\* the sweeps start on integrations that are enabled or not, active or
\* not, healthy or not
InitHealth ==
  /\ InitClient /\ InitWS /\ InitUnit
  /\ now = 0 /\ products = <<>> /\ sync_logs = <<>>
  /\ remote = [e \in ExternalIds |->
        [name |-> "A", price |-> 10, quantity |-> 1, updated_at |-> 0]]
  /\ task = [w \in Workers |-> IdleTask]
  /\ runs = 0 /\ subruns = 0 /\ faults = 0
  /\ integrations \in [Integrations ->
        { [integration_type |-> "onec", is_enabled |-> en, status |-> st,
           is_healthy |-> h, last_sync_at |-> None, total_syncs |-> 0,
           successful_syncs |-> 0, failed_syncs |-> 0, last_error |-> FALSE,
           last_health_check |-> None] :
            en \in BOOLEAN, st \in {"active", "inactive"}, h \in BOOLEAN }]

\* a sub-run has fetched any number of records up to MaxRecords
InitBatch ==
  /\ InitSync /\ InitClient /\ InitWS
  /\ rec = IdleReconcile /\ sweep = IdleSweep
  /\ batch \in { [IdleBatch EXCEPT !.pc = "loop", !.total = n] :
                   n \in 0 .. MaxRecords }

\* the reconciler is about to be called on any stored row, or none, and
\* any incoming data
InitReconcile ==
  /\ InitSync /\ InitClient /\ InitWS
  /\ batch = IdleBatch /\ sweep = IdleSweep
  /\ rec \in { [IdleReconcile EXCEPT !.pc = "input", !.existing = e,
                                       !.new_data = d] :
                 e \in StoredRows \cup {NoProduct}, d \in IncomingData }

NoOtherRunning(w) == \A v \in Workers \ {w} : task[v].pc \in {"idle", "done"}

TaskStep(w) ==
  \/ SubRunFetch(w)
  \/ SubRunFetchFail(w)
  \/ LookupProduct(w)
  \/ ApplyProduct(w)
  \/ FinishSubRun(w)
  \/ FinishTask(w)
  \/ RetryTask(w)

\* task executions follow one another (one worker at a time)
NextSync ==
  \/ \E w \in Workers : \E id \in Integrations \cup {None} \cup UnknownIntegrations :
       StartTask(w, id) /\ NoOtherRunning(w)
  \/ \E w \in Workers : TaskStep(w)
  \/ \E e \in ExternalIds : \E v \in ItemValues : RemoteUpdate(e, v)

\* task executions overlap (worker_concurrency > 1); the remote catalogue
\* stays as it is while the executions interleave
NextOverlap ==
  \/ \E w \in Workers : \E id \in Integrations \cup {None} \cup UnknownIntegrations :
       StartTask(w, id)
  \/ \E w \in Workers : TaskStep(w)

\* calls of _request against a server that answers anything
NextClient ==
  \/ \E m \in 0 .. MaxRetries : RequestStart(m)
  \/ \E o \in Outcomes : RequestAttempt(o)

\* clients connect, subscribe and leave while the application publishes
\* and the queue task dispatches
NextWS ==
  \/ \E ws \in Sockets : \E channels \in ChannelLists :
       \E outcome \in {"ok", "welcome_failed"} : Connect(ws, channels, outcome)
  \/ \E ws \in Sockets : ClientDisconnect(ws)
  \/ \E ws \in Sockets : \E ok \in BOOLEAN : EndpointError(ws, ok)
  \/ \E ws \in Sockets : \E channels \in ChannelLists : \E ok \in BOOLEAN :
       Subscribe(ws, channels, ok)
  \/ \E ws \in Sockets : \E channels \in ChannelLists : \E ok \in BOOLEAN :
       Unsubscribe(ws, channels, ok)
  \/ \E channel \in PublishChannels : Broadcast(channel)
  \/ DispatchTake
  \/ \E ok \in BOOLEAN : SendDone(ok)

\* the same with one subscriber to which no send ever completes
NextWSStall ==
  \/ \E ws \in Sockets : \E channels \in ChannelLists :
       \E outcome \in {"ok", "welcome_failed"} : Connect(ws, channels, outcome)
  \/ \E ws \in Sockets : ClientDisconnect(ws)
  \/ \E ws \in Sockets : \E ok \in BOOLEAN : EndpointError(ws, ok)
  \/ \E ws \in Sockets : \E channels \in ChannelLists : \E ok \in BOOLEAN :
       Subscribe(ws, channels, ok)
  \/ \E ws \in Sockets : \E channels \in ChannelLists : \E ok \in BOOLEAN :
       Unsubscribe(ws, channels, ok)
  \/ \E channel \in PublishChannels : Broadcast(channel)
  \/ DispatchTake
  \/ \E ok \in BOOLEAN : SendDoneLive(ok)

vars == <<syncVars, clientVars, wsVars, unitVars>>
Init == InitSync /\ InitClient /\ InitWS /\ InitUnit
Next == NextSync
Spec == Init /\ [][Next]_vars
SpecOverlap == Init /\ [][NextOverlap]_vars
SpecClient == Init /\ [][NextClient]_vars
SpecWS == Init /\ [][NextWS]_vars
\* the event loop runs the queue task whenever it is ready, and a send to a
\* socket whose peer reads ends
SpecWSStall ==
  /\ Init
  /\ [][NextWSStall]_vars
  /\ WF_vars(DispatchTake)
  /\ WF_vars(\E ok \in BOOLEAN : SendDoneLive(ok))
\* the reconciler applied to every pair of inputs
NextReconcile == Reconcile
SpecReconcile == InitReconcile /\ [][NextReconcile]_vars
\* the loop over the records of one sub-run, any record may raise
NextBatch ==
  \/ \E raises \in BOOLEAN : ProcessRecord(raises)
  \/ FinishBatch
SpecBatch == InitBatch /\ [][NextBatch]_vars
\* health-check sweeps, one after the other
NextHealth ==
  \/ StartSweep
  \/ \E outcome \in ProbeOutcomes : Probe(outcome)
  \/ FinishSweep
SpecHealth == InitHealth /\ [][NextHealth]_vars
\* overlapping task executions on a store that was synced before
\* the initial states of SpecResync
InitSynced == InitResync /\ InitClient /\ InitWS /\ InitUnit
SpecResync == InitSynced /\ [][NextOverlap]_vars

(***************************************************************************)
(* Properties of the synchronisation task                                  *)
(***************************************************************************)
LogIds == DOMAIN sync_logs

CompletedLogs(i) ==
  { id \in LogIds : sync_logs[id].integration_id = i
                    /\ sync_logs[id].status = "completed" }

\* C1: a fetched record whose local record has the same name, price and
\* quantity is skipped: the step that handles it writes nothing to the
\* store, counts no update and publishes no product_updated event.
C1_UnchangedRecordSkipped ==
  [][\A w \in Workers :
       ( /\ task[w].pc = "apply"
         /\ task'[w].pc # "apply"
         /\ task[w].existing # NoProduct
         /\ ~CriticalFieldChanged(task[w].existing,
               ProductData(task[w].products[task[w].idx], task[w].existing,
                           Head(task[w].todo))) )
       => ( /\ products' = products
            /\ task'[w].updated = task[w].updated
            /\ task'[w].created = task[w].created
            /\ task'[w].events = task[w].events )]_vars

\* C2: every local record has sync_version = 1 + the number of updates
\* applied to it.
C2_MonotonicVersion ==
  \A k \in 1 .. Len(products) :
    products[k].sync_version = 1 + products[k].updates

\* C2 witness: a record that was created and later updated
C2_Witness ==
  \E k \in 1 .. Len(products) :
    products[k].updates >= 1 /\ products[k].sync_version >= 2

\* C3: the store holds at most one local record per (integration,
\* external id), also when task executions overlap.
C3_AtMostOnePerExternalId ==
  \A k, j \in 1 .. Len(products) :
    ( /\ products[k].integration_id = products[j].integration_id
      /\ products[k].external_id = products[j].external_id ) => k = j

\* C3 witness: a task is about to create a record (its lookup found none)
\* that an overlapping task has created in the meantime
C3_Witness ==
  \E w \in Workers :
    /\ task[w].pc = "apply"
    /\ task[w].existing = NoProduct
    /\ get_product_by_external_id(task[w].products[task[w].idx].id,
                                  Head(task[w].todo)) # NoProduct

C7_PagingToExhaustion ==
  \A id \in LogIds : sync_logs[id].status = "completed" =>
    sync_logs[id].processed_items = sync_logs[id].remote_total

\* C8: successful_syncs + failed_syncs <= total_syncs for every integration.
C8_CounterInvariant ==
  \A i \in Integrations :
    integrations[i].successful_syncs + integrations[i].failed_syncs
      <= integrations[i].total_syncs

\* C9: when a task execution returns, every selected integration has been
\* attempted exactly once, whatever happened to the others, and each one
\* that succeeded has its records, counters and last_sync_at recorded.
C9_SiblingIsolation ==
  \A w \in Workers :
    (task[w].pc = "done" /\ task[w].result = "completed") =>
      /\ task[w].attempted = task[w].selected
      /\ \A n \in 1 .. Len(task[w].selected) :
           LET i  == task[w].selected[n]
               id == SyncLogId(task[w].task_id, i)
           IN  /\ id \in LogIds
               /\ sync_logs[id].opened = 1
               /\ sync_logs[id].status = "completed" =>
                    /\ integrations[i].last_sync_at # None
                    /\ integrations[i].successful_syncs >= 1
                    /\ integrations[i].total_syncs >= 1
                    /\ \A e \in sync_logs[id].stored :
                         get_product_by_external_id(e, i) # NoProduct

\* C9 witness: a returned execution over two integrations whose first
\* sub-run failed fatally and whose second one completed and stored records
C9_Witness ==
  \E w \in Workers :
    /\ task[w].pc = "done"
    /\ Len(task[w].selected) = 2
    /\ sync_logs[SyncLogId(task[w].task_id, task[w].selected[1])].status
         # "completed"
    /\ sync_logs[SyncLogId(task[w].task_id, task[w].selected[2])].status
         = "completed"
    /\ sync_logs[SyncLogId(task[w].task_id, task[w].selected[2])].stored # {}

\* C10: when a task execution returns, no SyncLog row it opened still has
\* status running: each is completed or failed.
C10_SyncLogFinalized ==
  \A w \in Workers : task[w].pc = "done" =>
    \A id \in LogIds :
      id[1] = task[w].task_id => sync_logs[id].status \in {"completed", "failed"}

\* the events that end an execution
TerminalEvents == {"sync_completed", "sync_error"}

\* the execution of the task has returned or was rescheduled
Ended(t) == t.pc \in {"done", "retry"}

\* C11: every execution of sync_nomenclature publishes sync_started first
\* and, when it has ended, exactly one terminal event (sync_completed or
\* sync_error), which is its last event; no terminal event is published
\* before the end; the sync_completed of an execution in which some
\* integration failed carries a non-null error, and an execution that
\* selected nothing returns the status skipped.
C11_NoSilentFailure ==
  \A w \in Workers :
    LET t == task[w]
        n == Len(t.events)
    IN  t.pc # "idle" =>
          /\ n >= 1
          /\ t.events[1] = "sync_started"
          /\ \A k \in 2 .. n : t.events[k] # "sync_started"
          /\ \A k \in 1 .. n - 1 : t.events[k] \notin TerminalEvents
          /\ Ended(t) <=> t.events[n] \in TerminalEvents
          /\ t.result \in {"completed", "skipped"} => t.events[n] = "sync_completed"
          /\ t.result \in {"retry", "failed"} => t.events[n] = "sync_error"
          /\ (t.result = "completed" /\ t.task_errors # <<>>)
               => t.error_message # "None"
          /\ (Ended(t) /\ t.events[n] = "sync_completed" /\ t.selected = <<>>)
               => t.result = "skipped"

\* an execution has ended as completed although the fetch of one of its
\* integrations failed
C11_Witness ==
  \E w \in Workers :
    /\ task[w].pc = "done"
    /\ task[w].result = "completed"
    /\ \E k \in 1 .. Len(task[w].task_errors) : task[w].task_errors[k] = "OneCApiError"
    /\ task[w].events[Len(task[w].events)] = "sync_completed"
    /\ task[w].error_message = "joined"

\* C12: when the fetch of an integration fails with a client error, the run
\* is rescheduled with a countdown of 60 s as long as fewer than 3
\* executions were made, and a run is never executed more than 3 times
\* (the 3 of the task decorator).
C12_OrchestrationRetry ==
  \A w \in Workers :
    LET t == task[w]
    IN  /\ t.retries + 1 <= TaskMaxRetries
        /\ ( /\ Ended(t)
             /\ \E k \in 1 .. Len(t.task_errors) : t.task_errors[k] = "OneCApiError"
             /\ t.retries + 1 < TaskMaxRetries )
           => (t.pc = "retry" /\ t.countdown = RetryCountdown)

(***************************************************************************)
(* Properties of the 1C client                                             *)
(***************************************************************************)
\* C4: a call of _request against a server that answered 503 to every
\* attempt has made exactly max_retries attempts when it ends, and it ends
\* by raising OneCConnectionError.
C4_RetryBound ==
  ( /\ req.pc \in {"returned", "raised"}
    /\ req.max_retries >= 1
    /\ \A k \in 1 .. Len(req.seen) : req.seen[k].status = 503 )
  => ( /\ req.sent = req.max_retries
       /\ req.pc = "raised"
       /\ req.result = "OneCConnectionError" )

\* the call of _request has ended
RequestEnded == req.pc \in {"returned", "raised"}

\* the call was answered at transport level by exceptions only, except
\* possibly for its last attempt
TransportFailuresBefore(n) ==
  \A k \in 1 .. n : req.seen[k].exc \in TransportErrors

\* C13: a call of _request whose first response has status 401 ends after
\* exactly one attempt by raising OneCAuthError, and one whose first
\* response has another status >= 400 outside 502/503/504 ends after
\* exactly one attempt by raising OneCResponseError.
C13_ErrorClassification ==
  ( /\ RequestEnded
    /\ req.seen # <<>>
    /\ req.seen[1].exc = "none"
    /\ req.seen[1].status >= 400
    /\ req.seen[1].status \notin {502, 503, 504} )
  => ( /\ req.sent = 1
       /\ req.pc = "raised"
       /\ req.result = IF req.seen[1].status = 401
                         THEN "OneCAuthError" ELSE "OneCResponseError" )

\* C14: while every attempt of a call fails at transport level, attempt k
\* (from 0) is followed by a wait of 2^k seconds and by attempt k + 1, the
\* call ends after attempt max_retries - 1 without a further wait by
\* raising OneCConnectionError, and a call that returns a result does so
\* at its first attempt that is answered, with no attempt after it.
C14_RetrySchedule ==
  LET n == Len(req.seen)
  IN  /\ (req.pc = "attempt" /\ TransportFailuresBefore(n))
           => /\ req.sent = n /\ req.attempt = n /\ n < req.max_retries
              /\ req.waits = [k \in 1 .. n |-> 2 ^ (k - 1)]
      /\ (req.pc = "raised" /\ n >= 1 /\ TransportFailuresBefore(n))
           => /\ req.sent = req.max_retries /\ n = req.max_retries
              /\ req.waits = [k \in 1 .. n - 1 |-> 2 ^ (k - 1)]
              /\ req.result = "OneCConnectionError"
      /\ (req.pc = "returned" /\ n >= 1)
           => /\ TransportFailuresBefore(n - 1)
              /\ req.seen[n].exc = "none" /\ req.seen[n].status < 400
              /\ req.sent = n /\ n <= req.max_retries
              /\ req.waits = [k \in 1 .. n - 1 |-> 2 ^ (k - 1)]
              /\ req.result \in {"json", "empty"}

\* three transport failures in a row have ended a call with max_retries = 3
C14_Witness ==
  /\ req.pc = "raised"
  /\ req.max_retries = 3
  /\ Len(req.seen) = 3
  /\ TransportFailuresBefore(3)
  /\ req.waits = <<1, 2>>
  /\ req.result = "OneCConnectionError"

\* C15: whatever the transport does and whatever max_retries is, a call of
\* get_nomenclature returns its list or raises OneCApiError or one of its
\* subclasses.
C15_OnlyOneCApiError ==
  RequestEnded => get_nomenclature_exit(req) \in {"products"} \cup OneCApiErrors

(***************************************************************************)
(* Properties of the WebSocket connection manager                          *)
(***************************************************************************)
\* number of times message m was sent to socket ws
RECURSIVE Count(_, _)
Count(m, seq) ==
  IF seq = <<>> THEN 0
  ELSE (IF Head(seq) = m THEN 1 ELSE 0) + Count(m, Tail(seq))

\* C6: in the step that ends a dispatch to a topic whose registry was the
\* set S all along, every subscriber of S whose send did not fail has
\* received the event exactly once, every subscriber whose send failed is
\* in no topic registry and has no connection info, and the registrations
\* and the connection info of all other sockets are as before.
C6_BroadcastIsolation ==
  [][ ( /\ dispatch.pc = "sending"
        /\ dispatch'.pc = "idle"
        /\ ~dispatch.mutated )
      => LET S == dispatch.registry
             F == dispatch.disconnected \cup
                    { ws \in {dispatch.current} : received'[ws] = received[ws] }
         IN  /\ \A ws \in S \ F :
                   Count(dispatch.message, received'[ws]) = 1
             /\ \A ws \in F :
                   /\ \A c \in Channels : ws \notin active_connections'[c]
                   /\ connection_info'[ws] = NoInfo
             /\ \A ws \in Sockets \ F :
                   /\ \A c \in Channels :
                        (ws \in active_connections'[c])
                          <=> (ws \in active_connections[c])
                   /\ connection_info'[ws] = connection_info[ws] ]_vars

\* C6 witness: a dispatch to three subscribers of sync_updates has ended;
\* the send to one of them failed and it is gone from the registries, the
\* other two have received the event
C6_Witness ==
  /\ dispatch.pc = "idle"
  /\ published >= 1
  /\ message_queue = <<>>
  /\ \E ws \in Sockets :
       /\ received[ws] = <<>>
       /\ endpoint[ws] = "open"
       /\ ~connection_info[ws].present
       /\ \A v \in Sockets \ {ws} :
            /\ received[v] = <<1>>
            /\ v \in active_connections["sync_updates"]

\* C16: a step in which connect(ws, channels) registers ws leaves ws in the
\* registry of every channel named in channels and of "all", and after a
\* step in which ws was disconnected, whatever it had subscribed to or
\* unsubscribed from, ws is in no registry and has no connection info.
C16_SubscriberRegistration ==
  [][ \A ws \in Sockets :
        /\ (endpoint[ws] = "new" /\ endpoint'[ws] # "new")
             => \A c \in connection_info'[ws].channels \cup {"all"} :
                  /\ c \in DOMAIN active_connections'
                  /\ ws \in active_connections'[c]
        /\ (connection_info[ws].present /\ ~connection_info'[ws].present)
             => /\ \A c \in Channels : ws \notin active_connections'[c]
                /\ connection_info'[ws] = NoInfo ]_vars

\* C17: in the step that ends the dispatch of an event published to a known
\* topic T (with no registry change during the dispatch), every socket
\* that is registered on T or on "all" before and after the step has
\* received the event.
C17_DeliveryToTopicAndAll ==
  [][ LET taken == /\ dispatch.pc = "idle"
                   /\ message_queue # <<>>
                   /\ message_queue' = Tail(message_queue)
          item  == IF taken THEN Head(message_queue)
                   ELSE [message |-> dispatch.message, channel |-> dispatch.channel]
          ends  == /\ dispatch'.pc = "idle"
                   /\ taken \/ (dispatch.pc = "sending" /\ ~dispatch.mutated)
      IN  (ends /\ item.channel \in Channels)
            => \A ws \in Sockets :
                 ( /\ ws \in active_connections[item.channel] \cup active_connections["all"]
                   /\ ws \in active_connections'[item.channel] \cup active_connections'["all"] )
                 => Count(item.message, received'[ws]) >= 1 ]_vars

\* C18: every socket receives the events in the order in which they were
\* published (events are numbered in publication order), so the events of
\* one run, a subsequence of the publications, are never reordered.
C18_PerRunFifo ==
  \A ws \in Sockets :
    \A i, j \in 1 .. Len(received[ws]) :
      i < j => received[ws][i] < received[ws][j]

\* a socket has received two events, published one after the other
C18_Witness ==
  /\ published >= 2
  /\ \E ws \in Sockets : received[ws] = <<1, 2>>

\* C19: a step that publishes appends the pair (message, channel) to the
\* queue and changes neither the registries, the connection info, the
\* statistics, the dispatch in progress nor what any socket has received;
\* it is taken whatever the state of the dispatcher, a send in flight
\* included.
C19_PublicationNeverBlocks ==
  [][ published' # published
        => /\ published' = published + 1
           /\ \E c \in PublishChannels :
                message_queue' = Append(message_queue,
                                        [message |-> published', channel |-> c])
           /\ UNCHANGED <<active_connections, connection_info, stats,
                          dispatch, received, endpoint>> ]_vars

\* a second event was published and queued while the dispatch of the first
\* one was suspended in a send
C19_Witness ==
  /\ dispatch.pc = "sending"
  /\ dispatch.message = 1
  /\ published = 2
  /\ message_queue # <<>>
  /\ message_queue[Len(message_queue)].message = 2

\* C20: in the step that ends a dispatch, whatever connects, disconnects,
\* subscribes and unsubscribes took effect while it was suspended in a
\* send, every socket that was in the registry of the topic when the
\* dispatch began and still is, and whose send did not fail, has received
\* the event.
C20_RegistrySafety ==
  [][ (dispatch.pc = "sending" /\ dispatch'.pc = "idle")
        => \A ws \in (dispatch.registry
                        \cap active_connections[dispatch.channel])
                      \ (dispatch.disconnected \cup {dispatch.current}) :
             Count(dispatch.message, received'[ws]) >= 1 ]_vars

\* the sync state that InitResync starts from, as reached from InitSync
ResyncReached ==
  /\ now = 1
  /\ remote[1].updated_at = 1 /\ remote[2].updated_at = 0
  /\ remote[3].updated_at = 0
  /\ integrations[1].last_sync_at = 0 /\ integrations[1].total_syncs = 1
  /\ integrations[2].total_syncs = 0 /\ integrations[2].failed_syncs = 0
  /\ Len(products) = 2
  /\ \A k \in 1 .. 2 : products[k].external_id = k /\ products[k].updates = 0
  /\ DOMAIN sync_logs = {SyncLogId(1, 1)}
  /\ sync_logs[SyncLogId(1, 1)].status = "completed"
  /\ sync_logs[SyncLogId(1, 1)].stored = {1, 2}

\* C21: when task executions overlap, every update a task applies to an
\* existing record is reflected in the store: the step raises the record's
\* sync_version by one over the stored value and leaves the fields of this
\* write, so two overlapping updates of one record end 2 versions higher.
C21_NoLostUpdate ==
  [][\A w \in Workers :
       ( /\ task[w].pc = "apply"
         /\ task'[w].updated = task[w].updated + 1 )
       => LET k == task[w].existing.id
          IN  /\ products'[k].sync_version = products[k].sync_version + 1
              /\ products'[k].name = task[w].products[task[w].idx].name ]_vars

\* C22: for an existing row the reconciler updates exactly when name,
\* price or quantity differs or, these being equal, the incoming
\* sync_version is strictly greater than the stored one, and skips
\* otherwise; a skipped row is left as it was; without an existing row a
\* row with sync_version 1 is created.
C22_ReconcilerDecision ==
  rec.pc = "decided" =>
    LET e == rec.existing
        d == rec.new_data
    IN  IF e = NoProduct
          THEN rec.decision = "create" /\ rec.row.sync_version = 1
          ELSE /\ rec.decision = "update"
                    <=> ( \/ e.name # d.name \/ e.price # d.price
                          \/ e.quantity # d.quantity
                          \/ d.sync_version > e.sync_version )
               /\ rec.decision \in {"update", "skip"}
               /\ rec.decision = "skip" => rec.row = e

\* the reconciler has skipped a row: same fields, version not greater
C22_Witness ==
  /\ rec.pc = "decided"
  /\ rec.decision = "skip"
  /\ rec.existing # NoProduct
  /\ rec.new_data.name = rec.existing.name
  /\ rec.new_data.sync_version <= rec.existing.sync_version
  /\ rec.row = rec.existing

\* C23: at every point of the loop over the records at most 50 records
\* were processed since the last commit, and when the sub-run has ended
\* everything is committed, whether or not records failed.
C23_BoundedBatches ==
  /\ batch.processed - batch.committed_at <= CommitEvery
  /\ batch.pc = "done" => batch.committed_at = batch.processed

\* C24: a sub-run that has processed its n records has published exactly
\* n \div 10 sync_progress events, with current = 10, 20, ... in this
\* order and never above total, whether or not records failed.
C24_ProgressEvents ==
  batch.pc = "done" =>
    /\ Len(batch.progress) = batch.total \div ProgressEvery
    /\ \A k \in 1 .. Len(batch.progress) :
         /\ batch.progress[k] = k * ProgressEvery
         /\ batch.progress[k] <= batch.total

\* C25: whenever an execution of sync_nomenclature without integration_id
\* can start (no execution is under way), every integration its selection
\* returns is enabled, healthy and of type onec.
C25_SelectionHealthy ==
  (\A w \in Workers : task[w].pc \in {"idle", "done"})
    => LET selected == _get_integrations_for_sync(None, "onec")
       IN  \A k \in 1 .. Len(selected) :
             /\ integrations[selected[k]].is_enabled
             /\ integrations[selected[k]].is_healthy
             /\ integrations[selected[k]].integration_type = "onec"

\* the positions of the probes of integration i in the current sweep
ProbesOf(i) == { k \in 1 .. Len(sweep.probes) : sweep.probes[k].id = i }

\* C26: when a sweep has ended, every enabled integration was probed
\* exactly once, has is_healthy equal to the outcome of its probe and
\* last_health_check set by this sweep, and has status error when it is
\* unhealthy, also when the probe of an integration raised.
C26_HealthSweep ==
  sweep.pc = "done" =>
    \A i \in Integrations :
      IF integrations[i].is_enabled
        THEN /\ Cardinality(ProbesOf(i)) = 1
             /\ \A k \in ProbesOf(i) :
                  /\ integrations[i].is_healthy
                       = (sweep.probes[k].outcome = "healthy")
                  /\ integrations[i].last_health_check = sweep.id
                  /\ ~integrations[i].is_healthy
                       => integrations[i].status = "error"
        ELSE ProbesOf(i) = {}

\* C29: when a sweep has ended, no integration whose probe in this sweep
\* succeeded has status error (the status that keeps it out of the
\* selection of the scheduled syncs), whatever earlier sweeps found.
C29_HealthRecovers ==
  sweep.pc = "done" =>
    \A k \in 1 .. Len(sweep.probes) :
      sweep.probes[k].outcome = "healthy"
        => integrations[sweep.probes[k].id].status # "error"

\* C28: in every state of the connection manager, stats.current_connections
\* equals the number of sockets that have connection info and equals the
\* size of the "all" registry (get_connection_stats reports the latter as
\* total_active_connections), and 0 <= current_connections <=
\* total_connections.
C28_ConnectionStats ==
  LET with_info == { ws \in Sockets : connection_info[ws].present }
  IN  /\ stats.current_connections = Cardinality(with_info)
      /\ stats.current_connections = Cardinality(active_connections["all"])
      /\ 0 <= stats.current_connections
      /\ stats.current_connections <= stats.total_connections

\* C30: when a sub-run ends normally, every record whose processing failed
\* in it is returned again by the fetch the next run of the integration
\* makes with the new last_sync_at against the unchanged catalogue; and a
\* sub-run that fails fatally leaves last_sync_at unchanged.
C30_WatermarkBehindFailures ==
  [][\A w \in Workers :
       /\ ( /\ task[w].pc = "finish"
            /\ task'[w].pc = "loop" )
          => LET i == Head(task[w].todo)
                 refetched == UpdatedAfter(RemoteItems,
                                           integrations'[i].last_sync_at)
             IN  \A k \in 1 .. Len(task[w].errors) :
                   \E j \in 1 .. Len(refetched) :
                     refetched[j].id = task[w].errors[k]
       /\ ( /\ task[w].pc = "loop"
            /\ Len(task'[w].task_errors) > Len(task[w].task_errors) )
          => LET i == Head(task[w].todo)
             IN  integrations'[i].last_sync_at = integrations[i].last_sync_at
    ]_vars

\* message m, published on channel c, still has to be sent to socket ws: it
\* waits in the queue, or it is being dispatched, ws was in the registry
\* when the iteration began and was not yet served, and the registry was
\* not changed since
Pending(m, c, ws) ==
  /\ c \in Channels
  /\ ws \in active_connections[c]
  /\ \/ \E k \in 1 .. Len(message_queue) :
           message_queue[k] = [message |-> m, channel |-> c]
     \/ /\ dispatch.pc = "sending"
        /\ dispatch.message = m
        /\ dispatch.channel = c
        /\ ws \in dispatch.registry \ dispatch.visited
        /\ ~dispatch.mutated

\* the queue task is suspended in the send to the stalled socket
Stalled == dispatch.pc = "sending" /\ dispatch.current = StalledSocket

\* C27: when the send to the stalled socket is in flight, every message
\* that is queued or being dispatched is eventually received by every other
\* socket registered on the message's channel, unless that socket leaves
\* the channel.
C27_StalledSubscriberNoStarvation ==
  \A ws \in Sockets \ {StalledSocket} :
    \A m \in 1 .. MaxEvents : \A c \in PublishChannels :
      (Stalled /\ Pending(m, c, ws))
        ~> ( \/ \E k \in 1 .. Len(received[ws]) : received[ws][k] = m
             \/ c \notin Channels
             \/ ws \notin active_connections[c] )
====
